---- MODULE Spec2Model ----
(***************************************************************************)
(* Model of openstack-operator/src/notification_listener.py:               *)
(*   start_notification_listener  - the reconnect loop and consume loop    *)
(*   _handle_message              - envelope decoding, filter, dispatch    *)
(* The listener is one asyncio task; one action of the model is one        *)
(* resumption of that task at an await, run up to its next await.          *)
(***************************************************************************)
EXTENDS Integers, Sequences, FiniteSets, TLC

(***************************************************************************)
(* Bounds of the model.                                                    *)
(***************************************************************************)
MaxMsgs == 2
MaxFailures == 2

(***************************************************************************)
(* Program constants.                                                      *)
(***************************************************************************)
RetryDelay == 10
PrefetchCount == 10
MessageTtl == 300000

(***************************************************************************)
(* Text: a Python str or bytes value, as the sequence of its lexical       *)
(* tokens.  A token is a record [k, s, t]:                                 *)
(*   k = "p"   punctuation s of JSON                                       *)
(*   k = "w"   a run of other characters s (a bare word)                   *)
(*   k = "num" a JSON number written s                                     *)
(*   k = "lit" a quoted JSON string whose unescaped content is the text t  *)
(***************************************************************************)
P(c) == [k |-> "p", s |-> c, t |-> <<>>]
W(c) == [k |-> "w", s |-> c, t |-> <<>>]
Num(c) == [k |-> "num", s |-> c, t |-> <<>>]
Lit(txt) == [k |-> "lit", s |-> "", t |-> txt]
Str(c) == IF c = "" THEN <<>> ELSE <<W(c)>>

(***************************************************************************)
(* Python values produced by json.loads: a record [ty, s, kv].             *)
(*   ty = "dict": kv is the sequence of items [key, val] (keys distinct)   *)
(*   ty = "list": kv is the sequence of elements [key |-> <<>>, val]       *)
(*   ty = "str" : s is its text;  ty = "int": s is its digits              *)
(*   ty = "none", "true", "false"                                          *)
(***************************************************************************)
NoneV == [ty |-> "none", s |-> <<>>, kv |-> <<>>]
TrueV == [ty |-> "true", s |-> <<>>, kv |-> <<>>]
FalseV == [ty |-> "false", s |-> <<>>, kv |-> <<>>]
StrV(txt) == [ty |-> "str", s |-> txt, kv |-> <<>>]
IntV(c) == [ty |-> "int", s |-> Str(c), kv |-> <<>>]
DictV(items) == [ty |-> "dict", s |-> <<>>, kv |-> items]
ListV(items) == [ty |-> "list", s |-> <<>>, kv |-> items]
Item(key, val) == [key |-> key, val |-> val]

\* dict[key] = val while the dict is built: a repeated key keeps the last value
Put(items, key, val) ==
  IF \E i \in 1..Len(items) : items[i].key = key
  THEN [i \in 1..Len(items) |->
          IF items[i].key = key THEN Item(key, val) ELSE items[i]]
  ELSE Append(items, Item(key, val))

HasKey(d, key) == \E i \in 1..Len(d.kv) : d.kv[i].key = key

Lookup(d, key) == d.kv[CHOOSE i \in 1..Len(d.kv) : d.kv[i].key = key].val

\* dict.get(key, default)
Get(d, key, default) == IF HasKey(d, key) THEN Lookup(d, key) ELSE default

\* Python truth value, as used by `not user_id`
Truthy(v) ==
  CASE v.ty = "str" -> v.s # <<>>
    [] v.ty = "int" -> v.s # Str("0")
    [] v.ty \in {"dict", "list"} -> v.kv # <<>>
    [] v.ty = "true" -> TRUE
    [] OTHER -> FALSE

(***************************************************************************)
(* json.loads on a text: a recursive-descent parse of the token sequence.  *)
(* A parse result is [ok, val, next]; next is the index after the value.   *)
(***************************************************************************)
ParseFail == [ok |-> FALSE, val |-> NoneV, next |-> 0]
ParseOk(v, n) == [ok |-> TRUE, val |-> v, next |-> n]

RECURSIVE ParseValue(_, _)
RECURSIVE ParseMembers(_, _, _)
RECURSIVE ParseElements(_, _, _)

ParseValue(txt, i) ==
  IF i > Len(txt) THEN ParseFail
  ELSE LET tok == txt[i] IN
    CASE tok.k = "lit" -> ParseOk(StrV(tok.t), i + 1)
      [] tok.k = "num" -> ParseOk(IntV(tok.s), i + 1)
      [] tok = W("null") -> ParseOk(NoneV, i + 1)
      [] tok = W("true") -> ParseOk(TrueV, i + 1)
      [] tok = W("false") -> ParseOk(FalseV, i + 1)
      [] tok = P("{") ->
           IF i + 1 <= Len(txt) /\ txt[i + 1] = P("}")
           THEN ParseOk(DictV(<<>>), i + 2)
           ELSE ParseMembers(txt, i + 1, <<>>)
      [] tok = P("[") ->
           IF i + 1 <= Len(txt) /\ txt[i + 1] = P("]")
           THEN ParseOk(ListV(<<>>), i + 2)
           ELSE ParseElements(txt, i + 1, <<>>)
      [] OTHER -> ParseFail

ParseMembers(txt, i, acc) ==
  IF i + 1 > Len(txt) THEN ParseFail
  ELSE IF txt[i].k # "lit" \/ txt[i + 1] # P(":") THEN ParseFail
  ELSE LET r == ParseValue(txt, i + 2) IN
    IF ~r.ok \/ r.next > Len(txt) THEN ParseFail
    ELSE LET acc2 == Put(acc, txt[i].t, r.val) IN
      IF txt[r.next] = P("}") THEN ParseOk(DictV(acc2), r.next + 1)
      ELSE IF txt[r.next] = P(",") THEN ParseMembers(txt, r.next + 1, acc2)
      ELSE ParseFail

ParseElements(txt, i, acc) ==
  LET r == ParseValue(txt, i) IN
    IF ~r.ok \/ r.next > Len(txt) THEN ParseFail
    ELSE LET acc2 == Append(acc, Item(<<>>, r.val)) IN
      IF txt[r.next] = P("]") THEN ParseOk(ListV(acc2), r.next + 1)
      ELSE IF txt[r.next] = P(",") THEN ParseElements(txt, r.next + 1, acc2)
      ELSE ParseFail

\* json.loads(x): [exc, val]; exc = "" when a value is returned
Raised(e) == [exc |-> e, val |-> NoneV]
Returned(v) == [exc |-> "", val |-> v]

JsonLoadsText(txt) ==
  LET r == ParseValue(txt, 1) IN
    IF r.ok /\ r.next = Len(txt) + 1 THEN Returned(r.val)
    ELSE Raised("JSONDecodeError")

\* variant: the nested value is used as it is, without a second decoding
JsonLoads_NoParse(v) == Returned(v)

\* json.loads applied to a Python value: only str/bytes are accepted
JsonLoads(v) ==
  IF v.ty = "str" THEN JsonLoadsText(v.s) ELSE Raised("TypeError")

(***************************************************************************)
(* _handle_message, up to its only await (the call of on_user_created).    *)
(* Every step yields [exc, val]; an exception ends the function.           *)
(***************************************************************************)
OsloKey == Str("oslo.message")
EventTypeKey == Str("event_type")
PayloadKey == Str("payload")
ResourceInfoKey == Str("resource_info")
UserCreated == Str("identity.user.created")

\* `"oslo.message" in data`
ContainsOslo(data) ==
  CASE data.ty = "dict" -> Returned(IF HasKey(data, OsloKey) THEN TrueV ELSE FalseV)
    [] data.ty = "list" ->
         Returned(IF \E i \in 1..Len(data.kv) : data.kv[i].val = StrV(OsloKey)
                  THEN TrueV ELSE FalseV)
    [] data.ty = "str" ->
         Returned(IF \E i \in 1..Len(data.s) : data.s[i] = OsloKey[1]
                  THEN TrueV ELSE FalseV)
    [] OTHER -> Raised("TypeError")

\* `data["oslo.message"]`
Subscript(data) ==
  IF data.ty = "dict" THEN Returned(Lookup(data, OsloKey)) ELSE Raised("TypeError")

\* variant: a top-level event_type wins over the nested document
ResolveEnvelope_TopFirst(data) ==
  IF data.ty = "dict" /\ HasKey(data, Str("event_type")) THEN Returned(data)
  ELSE IF data.ty = "dict" /\ HasKey(data, OsloKey)
    THEN JsonLoads(Lookup(data, OsloKey))
  ELSE Returned(data)

\* variant: the nested document is never decoded
ResolveEnvelope_Direct(data) == Returned(data)

\* lines 82-85: the envelope the event is read from
ResolveEnvelope(data) ==
  LET c == ContainsOslo(data) IN
    IF c.exc # "" THEN c
    ELSE IF c.val = TrueV
      THEN LET v == Subscript(data) IN
             IF v.exc # "" THEN v ELSE JsonLoads(v.val)
      ELSE Returned(data)

\* x.get(key, default) on any value: only a dict has the method
DictGet(x, key, default) ==
  IF x.ty = "dict" THEN Returned(Get(x, key, default)) ELSE Raised("AttributeError")

\* line 87
EventTypeOf(inner) == DictGet(inner, EventTypeKey, StrV(<<>>))

\* variant: no filter on the event type
Qualifies_Any(event_type) == TRUE

\* line 89: the filter; TRUE when the function goes on to the payload
Qualifies(event_type) == ~(event_type # StrV(UserCreated))

\* lines 92-94
UserIdOf(inner) ==
  LET p == DictGet(inner, PayloadKey, DictV(<<>>)) IN
    IF p.exc # "" THEN p ELSE DictGet(p.val, ResourceInfoKey, StrV(<<>>))

\* variant: no check of the identifier
IsEmptyUserId_Never(user_id) == FALSE

\* line 95
IsEmptyUserId(user_id) == ~Truthy(user_id)

(***************************************************************************)
(* The outcome of _handle_message before it suspends:                      *)
(*   kind = "raise"  an exception exc left the function                    *)
(*   kind = "skip"   returned at line 90 (other event type)                *)
(*   kind = "warn"   warning logged, returned at line 97                   *)
(*   kind = "call"   on_user_created(arg) is awaited (line 100)            *)
(***************************************************************************)
Outcome(kind, exc, arg) == [kind |-> kind, exc |-> exc, arg |-> arg]

HandleMessage(body) ==
  LET d == JsonLoadsText(body) IN
  IF d.exc # "" THEN Outcome("raise", d.exc, NoneV)
  ELSE LET inner == ResolveEnvelope(d.val) IN
  IF inner.exc # "" THEN Outcome("raise", inner.exc, NoneV)
  ELSE LET et == EventTypeOf(inner.val) IN
  IF et.exc # "" THEN Outcome("raise", et.exc, NoneV)
  ELSE IF ~Qualifies(et.val) THEN Outcome("skip", "", NoneV)
  ELSE LET u == UserIdOf(inner.val) IN
  IF u.exc # "" THEN Outcome("raise", u.exc, NoneV)
  ELSE IF IsEmptyUserId(u.val) THEN Outcome("warn", "", NoneV)
  ELSE Outcome("call", "", u.val)

\* line 92
PayloadOf(inner) == DictGet(inner, PayloadKey, DictV(<<>>))

\* the decoding steps alone (lines 79, 82-85, 87 and 92): the event type and
\* the payload read from the resolved envelope
DecodeEvent(body) ==
  LET d == JsonLoadsText(body) IN
  IF d.exc # "" THEN [exc |-> d.exc, eventType |-> NoneV, payload |-> NoneV]
  ELSE LET inner == ResolveEnvelope(d.val) IN
  IF inner.exc # "" THEN [exc |-> inner.exc, eventType |-> NoneV, payload |-> NoneV]
  ELSE LET et == EventTypeOf(inner.val) IN
  IF et.exc # "" THEN [exc |-> et.exc, eventType |-> NoneV, payload |-> NoneV]
  ELSE LET p == PayloadOf(inner.val) IN
  IF p.exc # "" THEN [exc |-> p.exc, eventType |-> et.val, payload |-> NoneV]
  ELSE [exc |-> "", eventType |-> et.val, payload |-> p.val]

(***************************************************************************)
(* json.dumps, the producer's side of the wire format (oslo.messaging      *)
(* serialises the event, then the envelope that carries it as a string).   *)
(***************************************************************************)
RECURSIVE Dumps(_)
RECURSIVE DumpItems(_, _)

Dumps(v) ==
  CASE v.ty = "str" -> <<Lit(v.s)>>
    [] v.ty = "int" -> <<Num(v.s[1].s)>>
    [] v.ty = "none" -> <<W("null")>>
    [] v.ty = "true" -> <<W("true")>>
    [] v.ty = "false" -> <<W("false")>>
    [] v.ty = "dict" -> <<P("{")>> \o DumpItems(v.kv, TRUE) \o <<P("}")>>
    [] v.ty = "list" -> <<P("[")>> \o DumpItems(v.kv, FALSE) \o <<P("]")>>

DumpItems(items, keyed) ==
  IF items = <<>> THEN <<>>
  ELSE (IF keyed THEN <<Lit(items[1].key), P(":")>> ELSE <<>>)
       \o Dumps(items[1].val)
       \o (IF Len(items) > 1 THEN <<P(",")>> ELSE <<>>)
       \o DumpItems(Tail(items), keyed)

\* the nested form: {"oslo.version": "2.0", "oslo.message": "<encoded event>"}
NestedForm(event) ==
  DictV(<<Item(Str("oslo.version"), StrV(Str("2.0"))),
          Item(OsloKey, StrV(Dumps(event)))>>)

(***************************************************************************)
(* The message bodies the broker delivers.  Each entry records how it was  *)
(* built: wf (the bytes decode to a mapping at every stage), et (the event *)
(* type of the envelope the producer meant, "" when it has none), payload  *)
(* ("mapping", "absent" or "null") and uid (its resource_info, "" when     *)
(* absent or empty).                                                       *)
(***************************************************************************)
UserEvent(et, uid) ==
  DictV(<<Item(EventTypeKey, StrV(Str(et))),
          Item(PayloadKey, DictV(<<Item(ResourceInfoKey, StrV(Str(uid))),
                                   Item(Str("outcome"), StrV(Str("success")))>>))>>)

Body(txt, wf, et, payload, uid) ==
  [text |-> txt, wf |-> wf, et |-> Str(et), payload |-> payload, uid |-> Str(uid)]

Catalog ==
  << \* 1: nested form, user created U1
     Body(Dumps(NestedForm(UserEvent("identity.user.created", "U1"))),
          TRUE, "identity.user.created", "mapping", "U1"),
     \* 2: direct form, user created U2
     Body(Dumps(UserEvent("identity.user.created", "U2")),
          TRUE, "identity.user.created", "mapping", "U2"),
     \* 3: nested form, another event type
     Body(Dumps(NestedForm(UserEvent("identity.project.created", "P1"))),
          TRUE, "identity.project.created", "mapping", "P1"),
     \* 4: direct form, no event_type
     Body(Dumps(DictV(<<Item(PayloadKey,
                             DictV(<<Item(ResourceInfoKey, StrV(Str("U3")))>>))>>)),
          TRUE, "", "mapping", "U3"),
     \* 5: direct form, user created, empty resource_info
     Body(Dumps(UserEvent("identity.user.created", "")),
          TRUE, "identity.user.created", "mapping", ""),
     \* 6: nested form, user created, no payload
     Body(Dumps(NestedForm(DictV(<<Item(EventTypeKey, StrV(UserCreated))>>))),
          TRUE, "identity.user.created", "absent", ""),
     \* 7: direct form, user created, payload without resource_info
     Body(Dumps(DictV(<<Item(EventTypeKey, StrV(UserCreated)),
                        Item(PayloadKey, DictV(<<>>))>>)),
          TRUE, "identity.user.created", "mapping", ""),
     \* 8: truncated outer document
     Body(<<P("{"), Lit(EventTypeKey), P(":")>>, FALSE, "", "absent", ""),
     \* 9: nested value that is not a document
     Body(Dumps(DictV(<<Item(OsloKey, StrV(Str("not json")))>>)),
          FALSE, "", "absent", ""),
     \* 10: outer document is a list
     Body(Dumps(ListV(<<Item(<<>>, StrV(UserCreated))>>)), FALSE, "", "absent", ""),
     \* 11: outer document is a number
     Body(Dumps(IntV("5")), FALSE, "", "absent", ""),
     \* 12: nested document is a list
     Body(Dumps(NestedForm(ListV(<<>>))), FALSE, "", "absent", ""),
     \* 13: user created with a null payload
     Body(Dumps(DictV(<<Item(EventTypeKey, StrV(UserCreated)),
                        Item(PayloadKey, NoneV)>>)),
          TRUE, "identity.user.created", "null", ""),
     \* 14: nested form of another event type inside a top-level user created
     Body(Dumps(DictV(<<Item(EventTypeKey, StrV(UserCreated)),
                        Item(PayloadKey,
                             DictV(<<Item(ResourceInfoKey, StrV(Str("U4")))>>)),
                        Item(OsloKey,
                             StrV(Dumps(UserEvent("identity.group.created", "G1"))))>>)),
          TRUE, "identity.group.created", "mapping", "G1"),
     \* 15: nested form of user created U5 inside a top-level other event
     Body(Dumps(DictV(<<Item(OsloKey,
                             StrV(Dumps(UserEvent("identity.user.created", "U5")))),
                        Item(EventTypeKey, StrV(Str("identity.user.deleted"))),
                        Item(PayloadKey,
                             DictV(<<Item(ResourceInfoKey, StrV(Str("U6")))>>))>>)),
          TRUE, "identity.user.created", "mapping", "U5")
  >>

Bodies == 1..Len(Catalog)

(***************************************************************************)
(* start_notification_listener.                                            *)
(*                                                                         *)
(* pc is the await the task is suspended at:                               *)
(*   "connect"           aio_pika.connect_robust            (line 36)      *)
(*   "channel"           connection.channel()               (line 38)      *)
(*   "set_qos"           channel.set_qos                    (line 39)      *)
(*   "declare_queue"     channel.declare_queue              (line 41)      *)
(*   "declare_exchange"  channel.declare_exchange           (line 48)      *)
(*   "bind"              queue.bind                         (line 53)      *)
(*   "iter"              async for message in queue         (line 57)      *)
(*   "handle"            a message was pulled, body of the loop starts     *)
(*   "callback"          await on_user_created(user_id)     (line 100)     *)
(*   "ack"               message.ack() on leaving message.process()        *)
(*   "sleep"             asyncio.sleep(10)                  (line 71)      *)
(*   "done"              the coroutine has finished                        *)
(***************************************************************************)
VARIABLES
  pc,          \* position of the task
  result,      \* "running", "returned" or "raised": how the run call ended
  cancelled,   \* the cancellation signal has been delivered
  healthy,     \* the broker has stopped failing
  connOpen,    \* the connection of the current episode is open
  steps,       \* broker operations completed in the current episode
  msg,         \* index in Catalog of the last message pulled, 0 if none
  handled,     \* how the handling of msg ended, "none" while it has not
  cbArgs,      \* arguments on_user_created was called with for msg
  ackCalls,    \* calls of message.ack() for msg
  rejectCalls, \* calls of message.reject() for msg
  status,      \* broker-side state of msg
  msgLog,      \* log levels recorded while handling msg
  sleepLeft,   \* seconds left of the current sleep
  failures,    \* failed attempts and episodes so far (saturates at MaxFailures)
  delivered,   \* messages pulled so far
  cbRaised,    \* on_user_created has raised earlier in this episode
  handling,    \* delivery tags pulled whose message.process() block is not left
  log,         \* steps [tag, step] of the last two messages pulled, in order
  openConns,   \* connections opened by the listener and not closed (counted to 2)
  ev           \* the last step taken

listenerVars ==
  <<pc, result, cancelled, healthy, connOpen, steps, msg, handled, cbArgs,
    ackCalls, rejectCalls, status, msgLog, sleepLeft, failures,
    delivered, cbRaised, handling, log, openConns, ev>>

(***************************************************************************)
(* The envelope decoding of _handle_message applied to one event, apart    *)
(* from the listener: the event and the form it is sent in are the inputs. *)
(***************************************************************************)
VARIABLES
  cEvent,      \* the event built in memory: [eventType, payload]
  cTop,        \* an event whose fields are put at the top level of a mixed form
  cForm,       \* "idle", or the form decoded: "nested", "direct" or "mixed"
  cOut         \* what the decoding gave

codecVars == <<cEvent, cTop, cForm, cOut>>

(***************************************************************************)
(* keystone/wsgi-friendly.py: one call of _FriendlyErrorMiddleware.        *)
(***************************************************************************)
VARIABLES
  wpc,         \* "idle", "call" (line 87), "respond" (line 102) or "done"
  wAccept,     \* index in AcceptHeaders of the request's Accept header
  wApp,        \* the wrapped application: what it does in this request
  wGiven,      \* the start_response the application was called with
  wCaptured,   \* the dict `captured`
  wCaller,     \* the calls of the caller's start_response, in order
  wIter,       \* the application's result iterable: chunks read, closed
  wRet         \* what __call__ returned or raised

wsgiVars == <<wpc, wAccept, wApp, wGiven, wCaptured, wCaller, wIter, wRet>>

otherVars == <<codecVars, wsgiVars>>

vars == <<listenerVars, codecVars, wsgiVars>>

msgVars == <<msg, handled, cbArgs, ackCalls, rejectCalls, status, msgLog, delivered>>

TopologyOps == <<"channel", "set_qos", "declare_queue", "declare_exchange", "bind">>

ConnectingPcs == {"connect"} \cup {TopologyOps[i] : i \in 1..Len(TopologyOps)}
ConnectedPcs == {"iter", "handle", "callback", "ack"}

\* the ConnectionState of the specification, read off the position
State ==
  CASE pc \in ConnectingPcs -> "Connecting"
    [] pc \in ConnectedPcs -> "Connected"
    [] pc = "sleep" -> "Backoff"
    [] pc = "done" -> "Terminated"

\* the awaits at which the event loop can deliver a cancellation
SuspensionPoints == ConnectingPcs \cup {"iter", "callback", "ack", "sleep"}

\* the arguments each broker operation is called with (lines 36-53)
Call(op) ==
  CASE op = "connect" ->
         [op |-> op, name |-> "transport_url", n |-> 0, durable |-> FALSE, kind |-> ""]
    [] op = "channel" ->
         [op |-> op, name |-> "", n |-> 0, durable |-> FALSE, kind |-> ""]
    [] op = "set_qos" ->
         [op |-> op, name |-> "", n |-> PrefetchCount, durable |-> FALSE, kind |-> ""]
    [] op = "declare_queue" ->
         [op |-> op, name |-> "openstack-operator-notifications", n |-> MessageTtl,
          durable |-> TRUE, kind |-> ""]
    [] op = "declare_exchange" ->
         [op |-> op, name |-> "openstack", n |-> 0, durable |-> TRUE, kind |-> "topic"]
    [] op = "bind" ->
         [op |-> op, name |-> "notifications.info", n |-> 0, durable |-> FALSE,
          kind |-> ""]

\* variant: a message is pulled while the callback of the one before runs
CanPull_Concurrent(p) == p \in {"iter", "callback"}

\* line 57: the loop asks for a message only between two loop bodies
CanPull(p) == p = "iter"

\* variant: the queue is not bound before it is consumed
NextOp_SkipBind(op) ==
  CASE op = "connect" -> "channel"
    [] op = "channel" -> "set_qos"
    [] op = "set_qos" -> "declare_queue"
    [] op = "declare_queue" -> "declare_exchange"
    [] op = "declare_exchange" -> "iter"
    [] op = "bind" -> "iter"

\* the operation that follows op in the try block
NextOp(op) ==
  CASE op = "connect" -> "channel"
    [] op = "channel" -> "set_qos"
    [] op = "set_qos" -> "declare_queue"
    [] op = "declare_queue" -> "declare_exchange"
    [] op = "declare_exchange" -> "bind"
    [] op = "bind" -> "iter"

\* positions inside the try block (lines 35-62); the sleep is in a handler
InTry(p) == p # "sleep"

\* variant: the connection is not used as a context manager
InConnection_NoCtx(p) == FALSE

\* positions inside `async with connection` (lines 37-62)
InConnection(p) == p \in (ConnectingPcs \cup ConnectedPcs) \ {"connect"}

\* positions inside `async with message.process()` (lines 58-62)
InProcess(p) == p \in {"handle", "callback"}

\* asyncio.CancelledError derives from BaseException, all others from Exception
IsException(e) == e # "CancelledError"

\* variants: `except json.JSONDecodeError`, and no handler at all
HandlerCatches_DecodeOnly(e) == e = "JSONDecodeError"
HandlerCatches_None(e) == FALSE

\* line 61: `except Exception` around _handle_message
HandlerCatches(e) == IsException(e)

\* variants: no `except Exception` clause, and one that returns
OuterClause_NoRetry(e) == IF e = "CancelledError" THEN "return" ELSE "propagate"
OuterClause_GiveUp(e) == "return"
\* variant: one clause that retries on everything, the cancellation included
OuterClause_Swallow(e) == "retry"

\* lines 64-71: the clauses of the outer try
OuterClause(e) ==
  IF e = "CancelledError" THEN "return"
  ELSE IF IsException(e) THEN "retry"
  ELSE "propagate"

\* variant: a delay that grows with the number of failures
BackoffDelay_Growing(n) == RetryDelay * n

\* line 71: the delay before the next attempt, after n failures
BackoffDelay(n) == RetryDelay

\* line 34: `while True`, the loop goes on after any number of failures
KeepsRetrying(n) == TRUE

Bump(n) == IF n < MaxFailures THEN n + 1 ELSE n

ListenerStart ==
  /\ pc = "connect"
  /\ result = "running"
  /\ cancelled = FALSE
  /\ healthy = FALSE
  /\ connOpen = FALSE
  /\ steps = {}
  /\ msg = 0
  /\ handled = "none"
  /\ cbArgs = <<>>
  /\ ackCalls = 0
  /\ rejectCalls = 0
  /\ status = "none"
  /\ msgLog = {}
  /\ sleepLeft = 0
  /\ failures = 0
  /\ delivered = 0
  /\ cbRaised = FALSE
  /\ handling = {}
  /\ log = <<>>
  /\ openConns = 0
  /\ ev = "start"

\* an event record and what a decoding gives
Event(et, payload) == [eventType |-> et, payload |-> payload]
Decoded(exc, et, payload, kind, arg) ==
  [exc |-> exc, eventType |-> et, payload |-> payload, kind |-> kind, arg |-> arg]

CodecIdle ==
  /\ cEvent = Event(<<>>, DictV(<<>>))
  /\ cTop = Event(<<>>, DictV(<<>>))
  /\ cForm = "idle"
  /\ cOut = Decoded("", NoneV, NoneV, "", NoneV)

(***************************************************************************)
(* Strings of the middleware are sequences of pieces; the status code is   *)
(* written digit by digit.                                                 *)
(***************************************************************************)
\* `needle in hay`
Contains(needle, hay) ==
  \E i \in 0..(Len(hay) - Len(needle)) :
     \A j \in 1..Len(needle) : hay[i + j] = needle[j]

\* hay.startswith(prefix)
StartsWith(hay, prefix) ==
  /\ Len(hay) >= Len(prefix)
  /\ \A j \in 1..Len(prefix) : hay[j] = prefix[j]

DigitChars == <<"0", "1", "2", "3", "4", "5", "6", "7", "8", "9">>

\* str(n) for n >= 0
RECURSIVE StrOfInt(_)
StrOfInt(n) ==
  IF n < 10 THEN <<DigitChars[n + 1]>>
  ELSE StrOfInt(n \div 10) \o <<DigitChars[(n % 10) + 1]>>

\* s.encode('utf-8') of a sequence of code points
RECURSIVE Utf8(_)
Utf8(cps) ==
  IF cps = <<>> THEN <<>>
  ELSE LET c == Head(cps) IN
    (IF c < 128 THEN <<c>>
     ELSE IF c < 2048 THEN <<192 + (c \div 64), 128 + (c % 64)>>
     ELSE <<224 + (c \div 4096), 128 + ((c \div 64) % 64), 128 + (c % 64)>>)
    \o Utf8(Tail(cps))

\* _ERROR_401_HTML, its first line `<!DOCTYPE html>` and the line end
Error401Html == <<60, 33, 68, 79, 67, 84, 89, 80, 69, 32, 104, 116, 109, 108, 62, 10>>

Header(name, value) == [name |-> name, value |-> value]

\* the Accept headers of the requests; html says whether the value was written
\* with text/html in it
AcceptHeaders ==
  << [present |-> FALSE, value |-> <<>>, html |-> FALSE],
     [present |-> TRUE, value |-> <<>>, html |-> FALSE],
     [present |-> TRUE, value |-> <<"application", "/", "json">>, html |-> FALSE],
     [present |-> TRUE, value |-> <<"*", "/", "*">>, html |-> FALSE],
     [present |-> TRUE, value |-> <<"text", "/", "plain", ",", "application", "/", "html">>,
      html |-> FALSE],
     [present |-> TRUE, value |-> <<"text", "/", "html">>, html |-> TRUE],
     [present |-> TRUE,
      value |-> <<"text", "/", "html", ",", "application", "/", "xhtml+xml", ";",
                  "q=0.9", ",", "*", "/", "*", ";", "q=0.8">>,
      html |-> TRUE],
     [present |-> TRUE,
      value |-> <<"application", "/", "json", ",", "text", "/", "html">>,
      html |-> TRUE] >>

\* the status lines of the application; is401 says whether the code is 401
Statuses ==
  << [line |-> <<"2", "0", "0", " ", "OK">>, is401 |-> FALSE],
     [line |-> <<"4", "0", "1", " ", "Unauthorized">>, is401 |-> TRUE],
     [line |-> <<"4", "0", "1", " ", "The request you have made requires authentication.">>,
      is401 |-> TRUE],
     [line |-> <<"4", "0", "3", " ", "Forbidden">>, is401 |-> FALSE],
     [line |-> <<"4", "1", "0", " ", "Gone">>, is401 |-> FALSE],
     [line |-> <<"5", "0", "0", " ", "Internal Server Error">>, is401 |-> FALSE] >>

\* the headers the application sends with status i
AppHeaders(i) ==
  <<Header("Content-Type", <<"application", "/", "json">>),
    Header("Vary", <<"X-Auth-Token">>)>>
  \o (IF Statuses[i].is401
        THEN <<Header("WWW-Authenticate", <<"Keystone uri=", "http://keystone">>)>>
        ELSE <<>>)

\* one call of start_response: status line, headers, exc_info, and whether it
\* came while the application ran or after it returned
SrCall(line, headers, exc, when) ==
  [line |-> line, headers |-> headers, exc |-> exc, when |-> when]

\* the calls the application makes of the start_response it is given: the
\* first without exc_info, a later one with it
AppCalls(app) ==
  [i \in 1..Len(app.calls) |->
     SrCall(Statuses[app.calls[i]].line, AppHeaders(app.calls[i]),
            IF i = 1 THEN "None" ELSE "exc_info", "during_app")]

\* the applications: the statuses of their calls of start_response before they
\* return, the chunks of their result, and whether it has close()
Apps ==
  [calls : {<<>>} \cup {<<i>> : i \in 1..Len(Statuses)}
             \cup {<<i, j>> : i \in {1, 2}, j \in {2, 6}},
   chunks : {0, 2},
   closeable : BOOLEAN]

NoCapture == [has |-> FALSE, line |-> <<>>, headers |-> <<>>, exc |-> "None"]
FreshIter == [read |-> 0, closed |-> FALSE]
NoReturn == [kind |-> "none", body |-> <<>>]

WsgiIdle ==
  /\ wpc = "idle"
  /\ wAccept = 1
  /\ wApp = [calls |-> <<>>, chunks |-> 0, closeable |-> FALSE]
  /\ wGiven = "none"
  /\ wCaptured = NoCapture
  /\ wCaller = <<>>
  /\ wIter = FreshIter
  /\ wRet = NoReturn

Init == ListenerStart /\ CodecIdle /\ WsgiIdle

WsgiInit ==
  /\ ListenerStart
  /\ CodecIdle
  /\ wpc = "call"
  /\ wAccept \in 1..Len(AcceptHeaders)
  /\ wApp \in Apps
  /\ wGiven = "none"
  /\ wCaptured = NoCapture
  /\ wCaller = <<>>
  /\ wIter = FreshIter
  /\ wRet = NoReturn

\* environ.get('HTTP_ACCEPT', '')
AcceptOf(a) == IF AcceptHeaders[a].present THEN AcceptHeaders[a].value ELSE <<>>

WantsHtml_DefaultHtml(a) ==
  Contains(<<"text", "/", "html">>,
           IF AcceptHeaders[a].present THEN AcceptHeaders[a].value
           ELSE <<"text", "/", "html">>)

\* line 89: the request is a browser's
WantsHtml(a) == Contains(<<"text", "/", "html">>, AcceptOf(a))

Is401_Any4xx(captured) ==
  StartsWith(IF captured.has THEN captured.line ELSE <<>>, <<"4">>)

\* line 102: captured.get('status', '').startswith('401')
Is401(captured) ==
  StartsWith(IF captured.has THEN captured.line ELSE <<>>, <<"4", "0", "1">>)

\* lines 89-90: the application is called with the caller's start_response and
\* its result is returned
PassThrough ==
  /\ wpc = "call"
  /\ ~WantsHtml(wAccept)
  /\ wGiven' = "caller"
  /\ wCaller' = wCaller \o AppCalls(wApp)
  /\ wRet' = [kind |-> "app_result", body |-> <<>>]
  /\ wpc' = "done"
  /\ UNCHANGED <<wAccept, wApp, wCaptured, wIter>>
  /\ UNCHANGED <<listenerVars, codecVars>>

\* lines 92-100: the application is called with capture_response, which keeps
\* the arguments of its last call
CallApp ==
  /\ wpc = "call"
  /\ WantsHtml(wAccept)
  /\ wGiven' = "capture_response"
  /\ wCaptured' =
       IF wApp.calls = <<>> THEN wCaptured
       ELSE LET c == AppCalls(wApp)[Len(wApp.calls)] IN
              [has |-> TRUE, line |-> c.line, headers |-> c.headers, exc |-> c.exc]
  /\ wpc' = "respond"
  /\ UNCHANGED <<wAccept, wApp, wCaller, wIter, wRet>>
  /\ UNCHANGED <<listenerVars, codecVars>>

\* lines 102-116: the result is drained and closed, the page is sent
Intercept ==
  /\ wpc = "respond"
  /\ Is401(wCaptured)
  /\ wIter' = [read |-> wApp.chunks,
               closed |-> IF wApp.closeable THEN TRUE ELSE wIter.closed]
  /\ LET body == Utf8(Error401Html) IN
       /\ wCaller' = Append(wCaller,
            SrCall(<<"4", "0", "1", " ", "Unauthorized">>,
                   <<Header("Content-Type", <<"text", "/", "html", "; charset=utf-8">>),
                     Header("Content-Length", StrOfInt(Len(body)))>>,
                   "None", "after_app"))
       /\ wRet' = [kind |-> "page", body |-> body]
  /\ wpc' = "done"
  /\ UNCHANGED <<wAccept, wApp, wGiven, wCaptured>>
  /\ UNCHANGED <<listenerVars, codecVars>>

\* lines 118-124: the captured status and headers are passed on
Forward ==
  /\ wpc = "respond"
  /\ ~Is401(wCaptured)
  /\ wCaptured.has
  /\ wCaller' = Append(wCaller,
        SrCall(wCaptured.line, wCaptured.headers, wCaptured.exc, "after_app"))
  /\ wRet' = [kind |-> "app_result", body |-> <<>>]
  /\ wpc' = "done"
  /\ UNCHANGED <<wAccept, wApp, wGiven, wCaptured, wIter>>
  /\ UNCHANGED <<listenerVars, codecVars>>

\* line 120 when the application has not called start_response: KeyError
ForwardNothing ==
  /\ wpc = "respond"
  /\ ~Is401(wCaptured)
  /\ ~wCaptured.has
  /\ wRet' = [kind |-> "KeyError", body |-> <<>>]
  /\ wpc' = "done"
  /\ UNCHANGED <<wAccept, wApp, wGiven, wCaptured, wCaller, wIter>>
  /\ UNCHANGED <<listenerVars, codecVars>>

WsgiNext == PassThrough \/ CallApp \/ Intercept \/ Forward \/ ForwardNothing

WsgiSpec == WsgiInit /\ [][WsgiNext]_vars

(***************************************************************************)
(* The events and forms the decoding is applied to.                        *)
(***************************************************************************)
EventTypes == {UserCreated, Str("identity.project.created"), <<>>}

Payloads ==
  { DictV(<<>>),
    DictV(<<Item(ResourceInfoKey, StrV(<<>>))>>),
    DictV(<<Item(ResourceInfoKey, StrV(Str("U1")))>>),
    \* values of every JSON type
    DictV(<<Item(ResourceInfoKey, StrV(Str("U2"))),
            Item(Str("initiator"),
                 DictV(<<Item(Str("id"), StrV(Str("A1"))),
                         Item(Str("roles"), ListV(<<Item(<<>>, StrV(Str("admin"))),
                                                    Item(<<>>, IntV("7"))>>))>>)),
            Item(Str("reason"), NoneV),
            Item(Str("enabled"), TrueV),
            Item(Str("deleted"), FalseV)>>),
    \* a string value that is itself a JSON text, and one that is half of one
    DictV(<<Item(ResourceInfoKey, StrV(Dumps(DictV(<<Item(EventTypeKey,
                                                         StrV(UserCreated))>>)))),
            Item(Str("note"), StrV(<<P("{"), W("x")>>))>>),
    \* attributes named like the fields of the envelope
    DictV(<<Item(OsloKey, StrV(Str("x"))),
            Item(EventTypeKey, StrV(Str("identity.group.created"))),
            Item(ResourceInfoKey, StrV(Str("U3")))>>) }

Events == {Event(et, p) : et \in EventTypes, p \in Payloads}

TopEvents ==
  { Event(UserCreated, DictV(<<Item(ResourceInfoKey, StrV(Str("T1")))>>)),
    Event(Str("identity.user.deleted"),
          DictV(<<Item(ResourceInfoKey, StrV(Str("T2")))>>)) }

\* the document of an event: {"event_type": ..., "payload": ...}
EventDoc(e) ==
  DictV(<<Item(EventTypeKey, StrV(e.eventType)), Item(PayloadKey, e.payload)>>)

\* the nested form of e with the fields of top next to oslo.message
MixedForm(e, top) ==
  DictV(<<Item(EventTypeKey, StrV(top.eventType)),
          Item(OsloKey, StrV(Dumps(EventDoc(e)))),
          Item(PayloadKey, top.payload)>>)

CodecInit ==
  /\ ListenerStart
  /\ WsgiIdle
  /\ cEvent \in Events
  /\ cTop \in TopEvents
  /\ cForm = "idle"
  /\ cOut = Decoded("", NoneV, NoneV, "", NoneV)

\* the body is decoded, and handled up to the call of on_user_created
Decode(form, body) ==
  /\ cForm = "idle"
  /\ cForm' = form
  /\ LET d == DecodeEvent(body)
         o == HandleMessage(body)
     IN cOut' = Decoded(d.exc, d.eventType, d.payload, o.kind, o.arg)
  /\ UNCHANGED <<cEvent, cTop>>
  /\ UNCHANGED <<listenerVars, wsgiVars>>

DecodeNested == Decode("nested", Dumps(NestedForm(EventDoc(cEvent))))
DecodeDirect == Decode("direct", Dumps(EventDoc(cEvent)))
DecodeMixed == Decode("mixed", Dumps(MixedForm(cEvent, cTop)))

CodecNext == DecodeNested \/ DecodeDirect \/ DecodeMixed

CodecSpec == CodecInit /\ [][CodecNext]_vars

\* the log with the given steps of the message in hand added
Logged(stepsDone) ==
  log \o [i \in 1..Len(stepsDone) |-> [tag |-> delivered, step |-> stepsDone[i]]]

\* a message whose block is not left is abandoned when the task unwinds
Abandoned == IF handling # {} THEN <<"abort">> ELSE <<>>

\* the steps of _handle_message that completed before it returned, raised or
\* suspended: decode is lines 79-87, filter is line 89
Stages(body) ==
  LET d == JsonLoadsText(body) IN
  IF d.exc # "" THEN <<>>
  ELSE LET inner == ResolveEnvelope(d.val) IN
  IF inner.exc # "" THEN <<>>
  ELSE IF EventTypeOf(inner.val).exc # "" THEN <<>>
  ELSE <<"decode", "filter">>

(***************************************************************************)
(* Unwind(p, e): exception e raised at position p leaves the context       *)
(* managers it is in and reaches the clauses of the outer try.             *)
(*   message.process().__aexit__ with an exception rejects the message     *)
(*   without requeue; connection.__aexit__ closes the connection.          *)
(***************************************************************************)
Unwind(p, e) ==
  /\ IF InProcess(p)
       THEN /\ rejectCalls' = rejectCalls + 1
            /\ status' = "rejected"
       ELSE /\ rejectCalls' = rejectCalls
            /\ status' = IF status \in {"inflight", "acking"} THEN "unacked" ELSE status
  /\ connOpen' = IF InConnection(p) THEN FALSE ELSE connOpen
  /\ openConns' = IF InConnection(p) /\ openConns > 0 THEN openConns - 1 ELSE openConns
  /\ handling' = {}
  /\ steps' = {}
  /\ IF ~InTry(p) \/ OuterClause(e) = "propagate"
       THEN /\ pc' = "done"
            /\ result' = "raised"
            /\ UNCHANGED <<sleepLeft, failures>>
     ELSE IF OuterClause(e) = "return"
       THEN /\ pc' = "done"
            /\ result' = "returned"
            /\ UNCHANGED <<sleepLeft, failures>>
     ELSE /\ pc' = "sleep"
          /\ result' = result
          /\ failures' = Bump(failures)
          /\ sleepLeft' = BackoffDelay(failures')

\* variant: the loop body does not use message.process(), nothing is acknowledged
LeaveHandler_NoAck(e, how, logs) ==
  IF e = "" \/ HandlerCatches(e)
  THEN /\ handled' = how
       /\ msgLog' = msgLog \cup logs \cup (IF e = "" THEN {} ELSE {"exception"})
       /\ pc' = "iter"
       /\ UNCHANGED <<result, connOpen, steps, sleepLeft, failures, rejectCalls,
                      ackCalls, status, handling, openConns>>
  ELSE /\ handled' = how
       /\ msgLog' = msgLog \cup logs
       /\ ackCalls' = ackCalls
       /\ Unwind(pc, e)

(***************************************************************************)
(* LeaveHandler(e, how, logs): _handle_message ended, with exception e or        *)
(* normally (e = ""); how names the ending.  A caught exception is logged  *)
(* and the block of message.process() ends normally, which acknowledges.   *)
(***************************************************************************)
LeaveHandler(e, how, logs) ==
  IF e = "" \/ HandlerCatches(e)
  THEN /\ handled' = how
       /\ msgLog' = msgLog \cup logs \cup (IF e = "" THEN {} ELSE {"exception"})
       /\ pc' = "ack"
       /\ ackCalls' = ackCalls + 1
       /\ status' = "acking"
       /\ UNCHANGED <<result, connOpen, steps, sleepLeft, failures, rejectCalls,
                      handling, openConns>>
  ELSE /\ handled' = how
       /\ msgLog' = msgLog \cup logs
       /\ ackCalls' = ackCalls
       /\ Unwind(pc, e)

(***************************************************************************)
(* The broker operations of the try block, in order.  Each one either      *)
(* completes or raises; a healthy broker no longer raises.                 *)
(***************************************************************************)
BrokerOk(op) ==
  /\ pc = op
  /\ pc' = NextOp(op)
  /\ connOpen' = TRUE
  /\ steps' = steps \cup {Call(op)}
  /\ openConns' = IF op = "connect" /\ openConns < 2 THEN openConns + 1 ELSE openConns
  /\ ev' = op
  /\ UNCHANGED otherVars
  /\ UNCHANGED <<result, cancelled, healthy, sleepLeft, failures, cbRaised,
                 handling, log>>
  /\ UNCHANGED msgVars

Connect == BrokerOk("connect")
OpenChannel == BrokerOk("channel")
SetQos == BrokerOk("set_qos")
DeclareQueue == BrokerOk("declare_queue")
DeclareExchange == BrokerOk("declare_exchange")
Bind == BrokerOk("bind")

\* an operation on the broker raises: connect, topology, iteration or ack
BrokerFail ==
  /\ pc \in ConnectingPcs \cup {"iter", "ack"}
  /\ ~healthy
  /\ Unwind(pc, "AMQPError")
  /\ log' = Logged(Abandoned)
  /\ cbRaised' = FALSE
  /\ ev' = "fail"
  /\ UNCHANGED otherVars
  /\ UNCHANGED <<cancelled, healthy, msg, handled, cbArgs, ackCalls, msgLog, delivered>>

\* the iteration of line 57 yields the next message
Receive(m) ==
  /\ CanPull(pc)
  /\ delivered < MaxMsgs
  /\ pc' = "handle"
  /\ msg' = m
  /\ handled' = "none"
  /\ cbArgs' = <<>>
  /\ ackCalls' = 0
  /\ rejectCalls' = 0
  /\ status' = "inflight"
  /\ msgLog' = {}
  /\ delivered' = delivered + 1
  /\ handling' = handling \cup {delivered + 1}
  /\ log' = SelectSeq(log, LAMBDA x : x.tag = delivered)
               \o <<[tag |-> delivered + 1, step |-> "pull"]>>
  /\ ev' = "receive"
  /\ UNCHANGED otherVars
  /\ UNCHANGED <<result, cancelled, healthy, connOpen, steps, sleepLeft, failures,
                 cbRaised, openConns>>

\* lines 58-62 and _handle_message up to its await
Handle ==
  /\ pc = "handle"
  /\ LET o == HandleMessage(Catalog[msg].text) IN
       CASE o.kind = "call" ->
              /\ pc' = "callback"
              /\ cbArgs' = Append(cbArgs, o.arg)
              /\ msgLog' = msgLog \cup {"info"}
              /\ UNCHANGED <<result, connOpen, steps, sleepLeft, failures,
                             handled, ackCalls, rejectCalls, status, handling,
                             openConns>>
         [] o.kind = "skip" -> LeaveHandler("", "skip", {}) /\ cbArgs' = cbArgs
         [] o.kind = "warn" -> LeaveHandler("", "warn", {"warning"}) /\ cbArgs' = cbArgs
         [] o.kind = "raise" -> LeaveHandler(o.exc, "raised", {}) /\ cbArgs' = cbArgs
  /\ log' = Logged(Stages(Catalog[msg].text))
  /\ ev' = "handle"
  /\ UNCHANGED otherVars
  /\ UNCHANGED <<cancelled, healthy, msg, delivered, cbRaised>>

\* on_user_created completes
CallbackReturn ==
  /\ pc = "callback"
  /\ LeaveHandler("", "dispatched", {})
  /\ log' = Logged(<<"dispatch">>)
  /\ ev' = "callback_return"
  /\ UNCHANGED otherVars
  /\ UNCHANGED <<cancelled, healthy, msg, cbArgs, delivered, cbRaised>>

\* on_user_created raises
CallbackRaise ==
  /\ pc = "callback"
  /\ LeaveHandler("CallbackError", "dispatch_raised", {})
  /\ log' = Logged(<<"dispatch">>)
  /\ cbRaised' = TRUE
  /\ ev' = "callback_raise"
  /\ UNCHANGED otherVars
  /\ UNCHANGED <<cancelled, healthy, msg, cbArgs, delivered>>

\* message.ack() completes and the loop asks for the next message
Ack ==
  /\ pc = "ack"
  /\ status' = "acked"
  /\ pc' = "iter"
  /\ handling' = handling \ {delivered}
  /\ log' = Logged(<<"ack">>)
  /\ ev' = "ack"
  /\ UNCHANGED otherVars
  /\ UNCHANGED <<result, cancelled, healthy, connOpen, steps, sleepLeft, failures,
                 msg, handled, cbArgs, ackCalls, rejectCalls, msgLog, delivered,
                 cbRaised, openConns>>

\* the iteration ends without raising: both blocks are left normally and
\* `while True` starts the next attempt
IterEnd ==
  /\ pc = "iter"
  /\ ~healthy
  /\ pc' = "connect"
  /\ connOpen' = IF InConnection(pc) THEN FALSE ELSE connOpen
  /\ openConns' = IF InConnection(pc) /\ openConns > 0 THEN openConns - 1 ELSE openConns
  /\ steps' = {}
  /\ cbRaised' = FALSE
  /\ ev' = "iter_end"
  /\ UNCHANGED otherVars
  /\ UNCHANGED <<result, cancelled, healthy, sleepLeft, failures, handling, log>>
  /\ UNCHANGED msgVars

\* one second of asyncio.sleep(10) passes
Tick ==
  /\ pc = "sleep"
  /\ sleepLeft > 0
  /\ sleepLeft' = sleepLeft - 1
  /\ ev' = "tick"
  /\ UNCHANGED otherVars
  /\ UNCHANGED <<pc, result, cancelled, healthy, connOpen, steps, failures, cbRaised,
                 handling, log, openConns>>
  /\ UNCHANGED msgVars

\* the sleep is over and the loop starts the next attempt
Wake ==
  /\ pc = "sleep"
  /\ sleepLeft = 0
  /\ IF KeepsRetrying(failures)
       THEN pc' = "connect" /\ result' = result
       ELSE pc' = "done" /\ result' = "returned"
  /\ ev' = "wake"
  /\ UNCHANGED otherVars
  /\ UNCHANGED <<cancelled, healthy, connOpen, steps, sleepLeft, failures, cbRaised,
                 handling, log, openConns>>
  /\ UNCHANGED msgVars

\* the task is cancelled: CancelledError is raised at the current await
Cancel ==
  /\ pc \in SuspensionPoints
  /\ ~cancelled
  /\ cancelled' = TRUE
  /\ IF pc = "callback"
       THEN LeaveHandler("CancelledError", "cancelled", {})
       ELSE Unwind(pc, "CancelledError") /\ UNCHANGED <<handled, msgLog, ackCalls>>
  /\ log' = Logged(Abandoned)
  /\ cbRaised' = FALSE
  /\ ev' = "cancel"
  /\ UNCHANGED otherVars
  /\ UNCHANGED <<healthy, msg, cbArgs, delivered>>

\* the broker recovers for good
Heal ==
  /\ ~healthy
  /\ healthy' = TRUE
  /\ ev' = "heal"
  /\ UNCHANGED otherVars
  /\ UNCHANGED <<pc, result, cancelled, connOpen, steps, sleepLeft, failures, cbRaised,
                 handling, log, openConns>>
  /\ UNCHANGED msgVars

Next ==
  \/ Connect
  \/ OpenChannel
  \/ SetQos
  \/ DeclareQueue
  \/ DeclareExchange
  \/ Bind
  \/ BrokerFail
  \/ \E m \in Bodies : Receive(m)
  \/ Handle
  \/ CallbackReturn
  \/ CallbackRaise
  \/ Ack
  \/ IterEnd
  \/ Tick
  \/ Wake
  \/ Cancel
  \/ Heal

Spec == Init /\ [][Next]_vars

\* the event loop resumes a task whose await has completed
Progress ==
  Connect \/ OpenChannel \/ SetQos \/ DeclareQueue \/ DeclareExchange \/ Bind
    \/ Tick \/ Wake

LiveSpec == Spec /\ WF_vars(Progress)

(***************************************************************************)
(* Properties.                                                             *)
(***************************************************************************)
\* how the handling of a message can end, other than by cancellation
HandlingOutcomes == {"raised", "skip", "warn", "dispatched", "dispatch_raised"}

\* the entry of the message being handled, as it was built
Cur == Catalog[msg]
Pulled == msg # 0
IsUserCreatedWithId(b) ==
  b.wf /\ b.et = UserCreated /\ b.payload = "mapping" /\ b.uid # <<>>
IsOtherEventType(b) == b.wf /\ b.et # UserCreated
IsUserCreatedWithoutId(b) ==
  b.wf /\ b.et = UserCreated /\ b.payload \in {"mapping", "absent"} /\ b.uid = <<>>
IsMalformed(b) == ~b.wf

\* C1: a cancellation delivered at any suspension point (connecting,
\* declaring, waiting for a message, in the callback, sleeping in the
\* backoff) ends the run call in Terminated by a normal return.
C1_CancelReturnsNormally ==
  cancelled => (State = "Terminated" /\ result = "returned")

\* C2: a message whose handling ended (decode failure, other event type,
\* missing identifier, dispatch done, dispatch raised) has had ack() called
\* exactly once, after the handling ended, and never reject(); it is
\* acknowledged as soon as that call completes.
C2_AckedOnceAfterHandling ==
  /\ (Pulled /\ handled \in HandlingOutcomes) =>
       /\ ackCalls = 1
       /\ rejectCalls = 0
       /\ IF pc = "ack"
            THEN status = "acking"
            ELSE status \in {"acked", "unacked"}
       /\ (ev = "ack" => status = "acked" /\ State = "Connected")
  /\ (Pulled /\ handled = "none") => (ackCalls = 0 /\ rejectCalls = 0)

C2_Witness ==
  /\ Pulled /\ handled = "dispatch_raised" /\ status = "acked"
  /\ ackCalls = 1 /\ delivered = MaxMsgs

\* C3: a message that is a user-created event with a non-empty resource_info
\* U has the callback invoked exactly once, with U, once it has been handled
\* (and not before).
C3_DispatchedOnceWithId ==
  (Pulled /\ IsUserCreatedWithId(Cur)) =>
     IF pc = "handle" /\ handled = "none"
       THEN cbArgs = <<>>
       ELSE cbArgs = <<StrV(Cur.uid)>>

C3_Witness ==
  /\ msg = 1 /\ handled = "dispatched" /\ cbArgs = <<StrV(Str("U1"))>>
  /\ status = "acked"

\* C4: a message of any other event type, or of none, never has the callback
\* invoked.
C4_OtherTypeNeverDispatched ==
  (Pulled /\ IsOtherEventType(Cur)) =>
     /\ cbArgs = <<>>
     /\ pc # "callback"
     /\ handled \in {"none", "skip"}

C4_Witness ==
  /\ msg = 4 /\ handled = "skip" /\ status = "acked" /\ cbArgs = <<>>

\* C5: a user-created message with resource_info absent or empty, or without
\* payload, never has the callback invoked; once handled, a warning is
\* recorded and the message is acknowledged.
C5_MissingIdWarnsAndAcks ==
  (Pulled /\ IsUserCreatedWithoutId(Cur)) =>
     /\ cbArgs = <<>>
     /\ pc # "callback"
     /\ (handled # "none" =>
           /\ handled = "warn"
           /\ "warning" \in msgLog
           /\ ackCalls = 1
           /\ rejectCalls = 0
           /\ (ev = "ack" => status = "acked"))
     /\ (ev = "handle" => handled = "warn")

C5_Witness ==
  /\ msg = 6 /\ handled = "warn" /\ "warning" \in msgLog /\ status = "acked"

\* C6: handling malformed bytes lets no exception out of the loop body: the
\* failure is logged, ack() is called, and the listener is still Connected.
C6_MalformedIsContained ==
  (Pulled /\ IsMalformed(Cur)) =>
     /\ cbArgs = <<>>
     /\ (ev = "handle" =>
           /\ handled = "raised"
           /\ "exception" \in msgLog
           /\ State = "Connected"
           /\ pc = "ack"
           /\ connOpen
           /\ result = "running")
     /\ (handled # "none" => ackCalls = 1 /\ rejectCalls = 0)
     /\ (ev = "ack" => status = "acked" /\ pc = "iter")

C6_Witness ==
  /\ msg = 10 /\ handled = "raised" /\ "exception" \in msgLog
  /\ status = "acked" /\ pc = "iter"

\* C7: a callback that raises leaves the listener Connected and running with
\* the message on its way to the acknowledgement, and the episode goes on.
C7_CallbackFailureIsIsolated ==
  /\ ev = "callback_raise" =>
       /\ State = "Connected"
       /\ pc = "ack"
       /\ connOpen
       /\ result = "running"
       /\ handled = "dispatch_raised"
       /\ "exception" \in msgLog
       /\ ackCalls = 1
       /\ rejectCalls = 0
  /\ cbRaised => (State = "Connected" /\ connOpen /\ result = "running")
  /\ (handled = "dispatch_raised" /\ ev = "ack") => (status = "acked" /\ pc = "iter")

\* a later message of the same episode was dispatched after a callback raised
C7_Witness ==
  /\ cbRaised /\ delivered = 2 /\ handled = "dispatched" /\ status = "acked"

\* C8: every failure of a broker operation puts the listener in Backoff with
\* the connection closed and the same delay of RetryDelay seconds whatever the
\* number of failures before; Backoff is left only for Connecting, when the
\* delay has run out, or by cancellation.
C8_FixedDelayRetryForever ==
  /\ [](ev = "fail" =>
          /\ State = "Backoff"
          /\ sleepLeft = RetryDelay
          /\ ~connOpen
          /\ result = "running")
  /\ [](State = "Backoff" => (sleepLeft \in 0..RetryDelay /\ result = "running"))
  /\ [][State = "Backoff" /\ pc' # pc =>
          \/ (sleepLeft = 0 /\ pc' = "connect" /\ result' = "running")
          \/ ev' = "cancel"]_vars

C8_Witness ==
  /\ ev = "wake" /\ failures = MaxFailures /\ pc = "connect" /\ result = "running"

\* C9: the run call has ended only if the cancellation signal was delivered;
\* until then it is running, in Connecting, Connected or Backoff.
C9_ExitsOnlyByCancellation ==
  /\ (pc = "done") <=> (result # "running")
  /\ (pc = "done") => cancelled
  /\ ~cancelled => State \in {"Connecting", "Connected", "Backoff"}

C9_Witness ==
  /\ result = "running" /\ State = "Backoff" /\ failures = MaxFailures
  /\ handled = "raised" /\ delivered > 0

\* C10: once the broker has stopped failing, the listener gets to Connected
\* unless it is cancelled.
C10_EventuallyConnected ==
  (healthy /\ ~cancelled) ~> (State = "Connected" \/ cancelled)

C10_Witness ==
  /\ healthy /\ ~cancelled /\ failures = MaxFailures /\ ev = "bind"
  /\ State = "Connected"

\* C11: the listener starts a connect attempt only at start or when a backoff
\* delay has run out, never straight from Connected or from a failed attempt.
C11_ConnectOnlyAfterBackoff ==
  [][(pc # "connect" /\ pc' = "connect") => (pc = "sleep" /\ sleepLeft = 0)]_vars

StepRank(step) ==
  CASE step = "pull" -> 1
    [] step = "decode" -> 2
    [] step = "filter" -> 3
    [] step = "dispatch" -> 4
    [] step = "ack" -> 5
    [] step = "abort" -> 6

StepsOfTag(t) ==
  LET own == SelectSeq(log, LAMBDA x : x.tag = t) IN
    [i \in 1..Len(own) |-> own[i].step]

\* C12: at most one message is in handling at any time; the steps of the
\* messages are logged in delivery order, and for each message in the order
\* pull, decode, filter, dispatch, ack; a message is pulled only when the one
\* before was acknowledged (or abandoned with its episode).
C12_SequentialInOrder ==
  /\ Cardinality(handling) <= 1
  /\ (pc \in {"handle", "callback", "ack"} => handling = {delivered})
  /\ \A i, j \in 1..Len(log) :
       i < j => \/ log[i].tag < log[j].tag
                \/ /\ log[i].tag = log[j].tag
                   /\ StepRank(log[i].step) < StepRank(log[j].step)
  /\ \A j \in 2..Len(log) :
       log[j].step = "pull" =>
         /\ log[j - 1].step \in {"ack", "abort"}
         /\ log[j - 1].tag + 1 = log[j].tag
  /\ ev = "ack" =>
       /\ StepsOfTag(delivered) \in
            { <<"pull", "ack">>,
              <<"pull", "decode", "filter", "ack">>,
              <<"pull", "decode", "filter", "dispatch", "ack">> }
       /\ (cbArgs # <<>>) <=> (\E i \in 1..Len(log) :
                                 log[i] = [tag |-> delivered, step |-> "dispatch"])

C12_Witness ==
  /\ delivered = 2 /\ ev = "ack" /\ Len(log) = 10
  /\ StepsOfTag(1) = StepsOfTag(2)

\* C13: once the cancellation is observed the run call has ended with no
\* connection open and no message in handling, and nothing happens after it:
\* no connect attempt, no callback, no message pulled.
C13_CancelStopsAndCloses ==
  /\ [](cancelled =>
          /\ pc = "done"
          /\ ~connOpen
          /\ openConns = 0
          /\ steps = {}
          /\ handling = {})
  /\ [][(~cancelled /\ cancelled') => (cbArgs' = cbArgs /\ delivered' = delivered)]_vars
  /\ [][cancelled =>
          /\ pc' = pc
          /\ cbArgs' = cbArgs
          /\ delivered' = delivered
          /\ steps' = steps]_vars

C13_Witness ==
  /\ cancelled /\ handled = "cancelled" /\ result = "returned"
  /\ ~connOpen /\ cbArgs # <<>>

\* C16: whenever the listener is Connected, the six broker operations have all
\* completed in this episode with their arguments (prefetch 10, durable queue,
\* durable topic exchange, binding key notifications.info); while Connecting,
\* exactly the operations before the current one have completed.
C16_ConnectedOnlyAfterTopology ==
  /\ State = "Connected" =>
       /\ {c.op : c \in steps} =
            {"connect", "channel", "set_qos", "declare_queue", "declare_exchange",
             "bind"}
       /\ \A c \in steps :
            /\ (c.op = "set_qos" => c.n = 10)
            /\ (c.op = "declare_queue" => c.durable /\ c.n = 300000)
            /\ (c.op = "declare_exchange" => c.durable /\ c.kind = "topic")
            /\ (c.op = "bind" => c.name = "notifications.info")
       /\ connOpen
  /\ State = "Connecting" =>
       {c.op : c \in steps} =
         CASE pc = "connect" -> {}
           [] pc = "channel" -> {"connect"}
           [] pc = "set_qos" -> {"connect", "channel"}
           [] pc = "declare_queue" -> {"connect", "channel", "set_qos"}
           [] pc = "declare_exchange" ->
                {"connect", "channel", "set_qos", "declare_queue"}
           [] pc = "bind" ->
                {"connect", "channel", "set_qos", "declare_queue", "declare_exchange"}
  /\ State \in {"Backoff", "Terminated"} => steps = {}

C16_Witness ==
  /\ ev = "receive" /\ failures = MaxFailures /\ Cardinality(steps) = 6

\* C18: no message is ever rejected: a message pulled is acknowledged after
\* its handling ended, or left unacknowledged for redelivery.
C18_NeverRejects ==
  /\ rejectCalls = 0
  /\ status # "rejected"
  /\ (Pulled /\ status = "acked") => handled \in HandlingOutcomes

\* C19: the listener has at most one connection open, and none while it
\* sleeps, before a connect attempt and after the run call ended.
C19_SingleConnection ==
  /\ openConns <= 1
  /\ (openConns = 1) <=> connOpen
  /\ pc \in {"sleep", "connect", "done"} => (openConns = 0 /\ ~connOpen)

C19_Witness ==
  /\ ev = "fail" /\ pc = "sleep" /\ status = "unacked" /\ openConns = 0
  /\ failures = MaxFailures

\* what the event in hand asks for: its identifier, "" when it has none
EventUserId(e) ==
  IF HasKey(e.payload, ResourceInfoKey) THEN Lookup(e.payload, ResourceInfoKey).s
  ELSE <<>>

\* C14: when oslo.message is present the event comes from the nested document
\* alone: the fields at the top level change nothing, a top-level user-created
\* next to another nested event is skipped, and a nested user-created with an
\* identifier is dispatched with it whatever the top level says.
C14_NestedTakesPrecedence ==
  cForm = "mixed" =>
    /\ cOut.exc = ""
    /\ cOut.eventType = StrV(cEvent.eventType)
    /\ cOut.payload = cEvent.payload
    /\ (cEvent.eventType # UserCreated => cOut.kind = "skip")
    /\ (cEvent.eventType = UserCreated /\ EventUserId(cEvent) # <<>>) =>
         (cOut.kind = "call" /\ cOut.arg = StrV(EventUserId(cEvent)))
    /\ (cEvent.eventType = UserCreated /\ EventUserId(cEvent) = <<>>) =>
         cOut.kind = "warn"
    /\ cOut.arg \notin {StrV(Str("T1")), StrV(Str("T2"))}

C14_Witness ==
  /\ cForm = "mixed" /\ cTop.eventType = UserCreated
  /\ cEvent.eventType = Str("identity.project.created")
  /\ EventUserId(cEvent) = Str("U1") /\ cOut.kind = "skip"

\* C15: an event sent in the nested form decodes to its own event type and
\* payload, and so does the same event sent in the direct form.
C15_RoundTrip ==
  cForm \in {"nested", "direct"} =>
    /\ cOut.exc = ""
    /\ cOut.eventType = StrV(cEvent.eventType)
    /\ cOut.payload = cEvent.payload

C15_Witness ==
  /\ cForm = "nested" /\ cOut.exc = "" /\ cEvent.eventType = UserCreated
  /\ Len(cEvent.payload.kv) = 5 /\ cOut.payload = cEvent.payload

(***************************************************************************)
(* keystone/wsgi-friendly.py                                               *)
(***************************************************************************)
WsgiDone == wpc = "done"

\* the last status the application gave to start_response
LastStatus == Statuses[wApp.calls[Len(wApp.calls)]]

\* the number a decimal string stands for
RECURSIVE IntOfStr(_)
IntOfStr(ds) ==
  IF ds = <<>> THEN 0
  ELSE IntOfStr(SubSeq(ds, 1, Len(ds) - 1)) * 10
       + (CHOOSE d \in 0..9 : DigitChars[d + 1] = ds[Len(ds)])

\* C17: a request whose Accept header has no text/html in it, or that has no
\* Accept header, goes to the application with the caller's own
\* start_response, which receives the application's calls and no other, and
\* the application's result is returned untouched, whatever the status.
C17_NonHtmlPassesThrough ==
  (WsgiDone /\ ~AcceptHeaders[wAccept].html) =>
     /\ wGiven = "caller"
     /\ wCaller = AppCalls(wApp)
     /\ wRet = [kind |-> "app_result", body |-> <<>>]
     /\ wIter = FreshIter
     /\ wCaptured = NoCapture

C17_Witness ==
  /\ WsgiDone
  /\ ~AcceptHeaders[wAccept].present
  /\ wApp.calls # <<>>
  /\ LastStatus.is401
  /\ wApp.chunks > 0
  /\ Len(wCaller) = 1
  /\ wRet.kind = "app_result"

====
